---- MODULE Spec2Model ----
(***************************************************************************)
(* A model of the grouping and aggregation engine of gerrit-scripts        *)
(* (statistics.py): the column classes, Statistics.process_records and     *)
(* Statistics.print_stats; and of the reports of gerrit-stats.py that run  *)
(* it over the records (gerrit/records.py) of the query results            *)
(* (gerrit/query.py).                                                      *)
(*                                                                         *)
(* Python values are written as strings holding their repr: "None" is      *)
(* None, "0" the integer 0, "" the empty string, "c1"/"c2" two Change      *)
(* objects.  Accumulator states are naturals (count columns) and sets of   *)
(* raw values (distinct-count columns).                                    *)
(***************************************************************************)
EXTENDS Integers, Sequences, FiniteSets, TLC

VARIABLES
    data,           \* GerritRecords._data: the changes the query returned
    group_columns,  \* Statistics._group_columns
    columns,        \* Statistics._columns
    init_values,    \* Statistics._init_values
    groups,         \* Statistics._groups: key tuple -> list of states
    order,          \* iteration order of the dict Statistics._groups
    calls,          \* number of process_records calls made so far
    records,        \* argument `records` of a process_records call just made
    new_columns,    \* argument `columns` of a process_records call just made
    op,             \* the last step: "init", "process", "return" or "print"
    sort_by,        \* argument `sort_by` of the last print_stats call
    status,         \* how the last call ended: "ok" or the error it raised
    rendered,       \* the rows the last print_stats call wrote, in order
    fp,             \* the lines the last print_stats call wrote to fp
    prints          \* how many print_stats calls in a row had this sort_by

vars == <<data, group_columns, columns, init_values, groups, order, calls, records,
          new_columns, op, sort_by, status, rendered, fp, prints>>

----------------------------------------------------------------------------
(* Bounds of the model. *)

MaxRecords == 2     \* longest record batch of one process_records call
MaxNewColumns == 2  \* most columns registered by one process_records call
MaxCalls == 2       \* most process_records calls on one aggregator
MaxPrints == 2      \* most print_stats calls in a row with one sort key

----------------------------------------------------------------------------
(* Python values. *)

PyNone == "None"

\* Truth value testing of Python: None, False, 0 and '' are false.
Truthy(v) == v \notin {"None", "False", "0", ""}

Authors == {"Al", "Bobby"}

\* Values a record's attribute can hold: None, the integer 0 and two objects.
RawValues == {"None", "0", "c1", "c2"}

Records == [author : Authors, val : RawValues]

\* In the place of an attribute's value: the record has no such attribute
\* (reading it raises AttributeError).
Missing == "<missing>"

\* Code points of the strings that are compared by the sort.
CodePoints(s) ==
    CASE s = "Al" -> <<65, 108>>
      [] s = "Bobby" -> <<66, 111, 98, 98, 121>>
      [] s = "Cy" -> <<67, 121>>

\* a < b for two Python strings: lexicographic on code points.
StrLess(a, b) ==
    LET x == CodePoints(a)
        y == CodePoints(b)
        Common == {i \in 1..Len(x) : i <= Len(y)}
        Diff == {i \in Common : x[i] # y[i]}
    IN  IF Diff = {}
        THEN Len(x) < Len(y)
        ELSE LET d == CHOOSE i \in Diff : \A j \in Diff : i <= j
             IN  x[d] < y[d]

Digit == <<"0", "1", "2", "3", "4", "5", "6", "7", "8", "9">>

\* unicode(n) for a non-negative integer n.
RECURSIVE IntToString(_)
IntToString(n) ==
    IF n < 10 THEN Digit[n + 1]
    ELSE IntToString(n \div 10) \o Digit[(n % 10) + 1]

----------------------------------------------------------------------------
(* The query results (gerrit/query.py) and the flat records built from    *)
(* them (gerrit/records.py).  A timestamp is None or one of the days      *)
(* "d1" < "d2"; an Author object is written as its name.                  *)

DayOf(date) == CASE date = "d1" -> 1 [] date = "d2" -> 2

\* GerritRecords._cutoff_date: the first day of the reported period.
cutoff_date == 2

\* s.startswith(prefix)
StartsWith(s, prefix) ==
    Len(s) >= Len(prefix) /\ SubSeq(s, 1, Len(prefix)) = prefix

Approval(type, value, by, granted_on) ==
    [approval_type |-> type, value |-> value, by |-> by,
     granted_on |-> granted_on]

ChangeComment(reviewer, message, timestamp) ==
    [reviewer |-> reviewer, message |-> message, timestamp |-> timestamp]

technical_account(author) ==
    author \in {"gerrit@gerrit.gromacs.org", "jenkins"}

\* The regular expression of technical_comment, for the messages of the
\* model: those of uploads are technical.
technical_comment(comment) == StartsWith(comment.message, "Uploaded patch set")

get_approvals(patchset, type) ==
    LET OfType(approval) == approval.approval_type = type
    IN  SelectSeq(patchset, OfType)

last_patchset(change) == change.patchsets[Len(change.patchsets)]

review_comments(change) ==
    LET Review(comment) ==
            /\ comment.reviewer # change.owner
            /\ ~technical_account(comment.reviewer)
            /\ ~technical_comment(comment)
    IN  SelectSeq(change.comments, Review)

merged_on(change) ==
    IF change.status # "MERGED" THEN PyNone
    ELSE get_approvals(last_patchset(change), "SUBM")[1].granted_on

abandoned_on(change) ==
    LET Abandoning == {i \in 1..Len(change.comments) :
                          StartsWith(change.comments[i].message, "Abandoned")}
    IN  IF change.status # "ABANDONED" \/ Abandoning = {} THEN PyNone
        ELSE change.comments[CHOOSE i \in Abandoning :
                                 \A j \in Abandoning : j <= i].timestamp

is_draft(change) == change.status = "DRAFT"

is_open(change) == change.status \in {"NEW", "SUBMITTED"}

is_verified(change) ==
    LET votes == get_approvals(last_patchset(change), "Verified")
    IN  /\ \E i \in 1..Len(votes) : votes[i].value = 2
        /\ ~\E i \in 1..Len(votes) : votes[i].value < 0

is_approved(change) ==
    LET votes == get_approvals(last_patchset(change), "Code-Review")
    IN  /\ \E i \in 1..Len(votes) : votes[i].value = 2
        /\ ~\E i \in 1..Len(votes) : votes[i].value < 0

is_downvoted(change) ==
    LET votes == get_approvals(last_patchset(change), "Code-Review")
    IN  \E i \in 1..Len(votes) : votes[i].value < 0

is_upvoted(change) ==
    LET votes == get_approvals(last_patchset(change), "Code-Review")
    IN  /\ \E i \in 1..Len(votes) : votes[i].value > 0
        /\ ~\E i \in 1..Len(votes) : votes[i].value < 0

public_changes(changes) ==
    LET Public(change) == ~is_draft(change)
    IN  SelectSeq(changes, Public)

open_changes(changes) == SelectSeq(public_changes(changes), is_open)

to_record_date(date) ==
    IF Truthy(date) /\ DayOf(date) < cutoff_date THEN PyNone ELSE date

\* A ChangeRecord has the attributes below and no others; has_comments and
\* the vote properties are read through `change`.
ChangeRecord(change, created_on, merged, abandoned) ==
    [change |-> change, author |-> change.owner, created_on |-> created_on,
     merged_on |-> merged, abandoned_on |-> abandoned]

CommentRecord(change, author, timestamp) ==
    [change |-> change, author |-> author, timestamp |-> timestamp]

VoteRecord(change, author, timestamp) ==
    [change |-> change, author |-> author, timestamp |-> timestamp]

get_change_records(changes) ==
    [i \in 1..Len(changes) |->
        ChangeRecord(changes[i],
                     to_record_date(changes[i].created_on),
                     to_record_date(merged_on(changes[i])),
                     to_record_date(abandoned_on(changes[i])))]

\* One CommentRecord for each of the given comments of one change.
CommentRecordsOf(change, comments) ==
    [k \in 1..Len(comments) |->
        CommentRecord(change, comments[k].reviewer,
                      to_record_date(comments[k].timestamp))]

RECURSIVE get_comment_records(_)
get_comment_records(changes) ==
    IF changes = <<>> THEN <<>>
    ELSE CommentRecordsOf(Head(changes), review_comments(Head(changes)))
             \o get_comment_records(Tail(changes))

\* One VoteRecord for each code-review approval of the patch sets, in order.
RECURSIVE VoteRecordsOf(_, _)
VoteRecordsOf(change, patchsets) ==
    IF patchsets = <<>> THEN <<>>
    ELSE LET votes == get_approvals(Head(patchsets), "Code-Review")
         IN  [k \in 1..Len(votes) |->
                 VoteRecord(change, votes[k].by,
                            to_record_date(votes[k].granted_on))]
                 \o VoteRecordsOf(change, Tail(patchsets))

RECURSIVE get_vote_records(_)
get_vote_records(changes) ==
    IF changes = <<>> THEN <<>>
    ELSE VoteRecordsOf(Head(changes), Head(changes).patchsets)
             \o get_vote_records(Tail(changes))

\* getattr(record, name): the attribute, or the AttributeError of reading
\* an attribute the record does not have.
Attr(record, name) ==
    IF name \in DOMAIN record THEN record[name] ELSE Missing

PyBool(b) == IF b THEN "True" ELSE "False"

is_rfc_wip(record) ==
    \E prefix \in {"RFC", "[RFC]", "WIP", "[WIP]"} :
        StartsWith(record.change.commit_message, prefix)

has_comments(record) == review_comments(record.change) # <<>>

\* The closures that gerrit-stats.py gives to its columns, by the name used
\* for them in the model.
Closure(fn, x) ==
    CASE fn = "created_on" -> Attr(x, "created_on")
      [] fn = "merged_on" -> Attr(x, "merged_on")
      [] fn = "abandoned_on" -> Attr(x, "abandoned_on")
      [] fn = "created_on and closed_on" ->
             IF Truthy(Attr(x, "created_on")) THEN Attr(x, "closed_on")
             ELSE Attr(x, "created_on")
      [] fn = "change if timestamp else None" ->
             IF Truthy(Attr(x, "timestamp")) THEN x.change.number ELSE PyNone
      [] fn = "True" -> PyBool(TRUE)
      [] fn = "is_rfc_wip" -> PyBool(is_rfc_wip(x))
      [] fn = "-Verified" ->
             PyBool(~is_rfc_wip(x) /\ ~is_verified(x.change))
      [] fn = "-Review" ->
             PyBool(~is_rfc_wip(x) /\ is_verified(x.change)
                    /\ is_downvoted(x.change))
      [] fn = "Approved" ->
             PyBool(~is_rfc_wip(x) /\ is_verified(x.change)
                    /\ is_approved(x.change))
      [] fn = "+Review" ->
             PyBool(~is_rfc_wip(x) /\ is_verified(x.change)
                    /\ ~is_approved(x.change) /\ is_upvoted(x.change))
      [] fn = "Comments" ->
             PyBool(~is_rfc_wip(x) /\ is_verified(x.change)
                    /\ ~is_upvoted(x.change) /\ ~is_downvoted(x.change)
                    /\ has_comments(x))
      [] fn = "Nothing" ->
             PyBool(~is_rfc_wip(x) /\ is_verified(x.change)
                    /\ ~has_comments(x))

----------------------------------------------------------------------------
(* The column classes. *)

AuthorNameColumn(name) == [name |-> name, kind |-> "author"]
CountColumn(name) == [name |-> name, kind |-> "count"]
DistinctCountColumn(name) == [name |-> name, kind |-> "distinct"]

\* The same classes, for a column built with one of the closures of
\* gerrit-stats.py.
CountColumnOf(name, fn) == [name |-> name, kind |-> "count", fn |-> fn]
DistinctCountColumnOf(name, fn) ==
    [name |-> name, kind |-> "distinct", fn |-> fn]

\* The value of the closure a column was built with (get_author, predicate)
\* for a record.
Lambda(column, record) ==
    IF column.kind = "author" THEN record.author
    ELSE IF "fn" \in DOMAIN column THEN Closure(column.fn, record)
    ELSE record.val

\* Whether column.get_value(record) raises AttributeError: the closure
\* reads an attribute the record does not have.
Raises(column, record) == Lambda(column, record) = Missing

default_value(column) ==
    IF column.kind = "distinct" THEN {} ELSE 0

get_value(column, record) ==
    CASE column.kind = "author" -> Lambda(column, record)
      [] column.kind = "count" ->
             IF Truthy(Lambda(column, record)) THEN 1 ELSE 0
      [] column.kind = "distinct" -> Lambda(column, record)

to_sortable(column, value) ==
    IF column.kind = "distinct" THEN Cardinality(value) ELSE value

to_string(column, value) ==
    CASE column.kind = "author" -> value
      [] column.kind = "count" -> IntToString(value)
      [] column.kind = "distinct" -> IntToString(Cardinality(value))

\* A faulty variant of accumulate: a count column keeps the last contribution.
accumulate_overwriting(column, base, value) ==
    IF column.kind = "distinct"
    THEN IF Truthy(value) THEN base \cup {value} ELSE base
    ELSE value

\* A faulty variant of accumulate: a distinct-count column keeps the last value only.
accumulate_last_value(column, base, value) ==
    IF column.kind = "distinct"
    THEN IF Truthy(value) THEN {value} ELSE base
    ELSE base + value

accumulate(column, base, value) ==
    IF column.kind = "distinct"
    THEN IF Truthy(value) THEN base \cup {value} ELSE base
    ELSE base + value

----------------------------------------------------------------------------
(* Statistics.process_records *)

\* The key tuple _get_group computes for a record.
GroupKey(gcols, record) ==
    [i \in 1..Len(gcols) |-> get_value(gcols[i], record)]

\* Whether computing the key tuple of a record raises.
KeyRaises(gcols, record) ==
    \E i \in 1..Len(gcols) : Raises(gcols[i], record)

\* Whether the body of the loop over the records raises for a record.
RecordRaises(gcols, cols, record) ==
    KeyRaises(gcols, record) \/ \E i \in 1..Len(cols) : Raises(cols[i], record)

\* The position in the batch of the first record for which process_records
\* raises, or 0 when it returns.
FirstRaising(gcols, cols, recs) ==
    LET Raising == {j \in 1..Len(recs) : RecordRaises(gcols, cols, recs[j])}
    IN  IF Raising = {} THEN 0
        ELSE CHOOSE j \in Raising : \A k \in Raising : j <= k

\* _get_group: the dict after the lookup, with the group created when the
\* key is absent or its row is empty (`if not group`).
get_group(g, gcols, inits, record) ==
    LET key == GroupKey(gcols, record)
    IN  IF key \in DOMAIN g /\ g[key] # <<>>
        THEN g
        ELSE [k \in DOMAIN g \cup {key} |-> IF k = key THEN inits ELSE g[k]]

\* The inner loop of process_records over the new columns, for one record;
\* it ends at the first column whose get_value raises.
RECURSIVE AccumulateColumns(_, _, _, _, _)
AccumulateColumns(group, cols, existing, record, i) ==
    IF i > Len(cols) \/ Raises(cols[i], record) THEN group
    ELSE LET index == existing + i
             value == get_value(cols[i], record)
             next == [group EXCEPT
                         ![index] = accumulate(cols[i], group[index], value)]
         IN  AccumulateColumns(next, cols, existing, record, i + 1)

\* A faulty variant of ProcessLoop: a record for which an extract raises is
\* skipped and the loop goes on with the next record.
RECURSIVE ProcessLoopSkipping(_, _, _, _, _, _)
ProcessLoopSkipping(g, gcols, inits, recs, cols, existing) ==
    IF recs = <<>> THEN g
    ELSE LET record == Head(recs)
             key == GroupKey(gcols, record)
             g1 == get_group(g, gcols, inits, record)
             g2 == [g1 EXCEPT ![key] =
                       AccumulateColumns(g1[key], cols, existing, record, 1)]
         IN  IF RecordRaises(gcols, cols, record)
             THEN ProcessLoopSkipping(g, gcols, inits, Tail(recs), cols, existing)
             ELSE ProcessLoopSkipping(g2, gcols, inits, Tail(recs), cols, existing)

\* The loop of process_records over the records. It ends with the record
\* for which an extract raises: before _get_group has touched the dict when
\* it is the key that raises, and else with the record's group looked up
\* or created and the columns before the raising one accumulated.
RECURSIVE ProcessLoop(_, _, _, _, _, _)
ProcessLoop(g, gcols, inits, recs, cols, existing) ==
    IF recs = <<>> THEN g
    ELSE LET record == Head(recs)
             key == GroupKey(gcols, record)
             g1 == get_group(g, gcols, inits, record)
             g2 == [g1 EXCEPT ![key] =
                       AccumulateColumns(g1[key], cols, existing, record, 1)]
         IN  IF KeyRaises(gcols, record) THEN g
             ELSE IF RecordRaises(gcols, cols, record) THEN g2
             ELSE ProcessLoop(g2, gcols, inits, Tail(recs), cols, existing)

\* A faulty variant of ProcessedGroups: the existing rows are extended with the
\* defaults of every column registered so far, not of the new ones only.
ProcessedGroupsExtendAll(g, gcols, inits, recs, cols, existing) ==
    LET new_init_values == [i \in 1..Len(cols) |-> default_value(cols[i])]
        all_inits == inits \o new_init_values
        extended == [k \in DOMAIN g |-> g[k] \o all_inits]
    IN  ProcessLoop(extended, gcols, all_inits, recs, cols, existing)

\* The dict _groups after process_records(recs, cols).
ProcessedGroups(g, gcols, inits, recs, cols, existing) ==
    LET new_init_values == [i \in 1..Len(cols) |-> default_value(cols[i])]
        all_inits == inits \o new_init_values
        extended == [k \in DOMAIN g |-> g[k] \o new_init_values]
    IN  ProcessLoop(extended, gcols, all_inits, recs, cols, existing)

\* All orders in which a dict with the given keys can be iterated.
Orders(keys) ==
    {s \in [1..Cardinality(keys) -> keys] : \A k \in keys : \E i \in DOMAIN s : s[i] = k}

ColumnPool == {CountColumn("Created"), DistinctCountColumn("Voted")}

SeqsUpTo(S, n) == UNION {[1..m -> S] : m \in 0..n}

\* The column lists a pass can register: lists of different pool columns.
ColumnLists ==
    {c \in SeqsUpTo(ColumnPool, MaxNewColumns) :
        \A i, j \in DOMAIN c : i # j => c[i] # c[j]}

\* A faulty variant of process_records: the columns and their defaults are
\* registered only when the loop over the records has not raised.
process_records_registering_last(recs, cols) ==
    /\ op \in {"init", "return"}
    /\ calls' = calls + 1
    /\ records' = recs
    /\ new_columns' = cols
    /\ columns' = IF FirstRaising(group_columns, cols, recs) = 0
                  THEN columns \o cols ELSE columns
    /\ init_values' = IF FirstRaising(group_columns, cols, recs) = 0
                      THEN init_values \o
                               [i \in 1..Len(cols) |-> default_value(cols[i])]
                      ELSE init_values
    /\ groups' = ProcessedGroups(groups, group_columns, init_values, recs, cols,
                                 Len(columns))
    /\ order' \in IF DOMAIN groups' = DOMAIN groups THEN {order}
                  ELSE Orders(DOMAIN groups')
    /\ op' = "process"
    /\ status' = IF FirstRaising(group_columns, cols, recs) = 0 THEN "ok"
                 ELSE "AttributeError"
    /\ sort_by' = PyNone
    /\ rendered' = <<>>
    /\ fp' = <<>>
    /\ prints' = 0
    /\ UNCHANGED <<data, group_columns>>

\* The passes of a report come before its print_stats calls, as in every
\* do_stats of gerrit-stats.py; print_stats changes nothing a later pass
\* would read (C9).
process_records(recs, cols) ==
    /\ op \in {"init", "return"}
    /\ calls' = calls + 1
    /\ records' = recs
    /\ new_columns' = cols
    /\ columns' = columns \o cols
    /\ init_values' = init_values \o [i \in 1..Len(cols) |-> default_value(cols[i])]
    /\ groups' = ProcessedGroups(groups, group_columns, init_values, recs, cols,
                                 Len(columns))
    /\ order' \in IF DOMAIN groups' = DOMAIN groups THEN {order}
                  ELSE Orders(DOMAIN groups')
    /\ op' = "process"
    /\ status' = IF FirstRaising(group_columns, cols, recs) = 0 THEN "ok"
                 ELSE "AttributeError"
    /\ sort_by' = PyNone
    /\ rendered' = <<>>
    /\ fp' = <<>>
    /\ prints' = 0
    /\ UNCHANGED <<data, group_columns>>

----------------------------------------------------------------------------
(* Statistics.print_stats *)

\* _find_column_index: the position of the first column of that name among
\* the group-key columns followed by the accumulated columns (counted from
\* 1 here, from 0 in the source), or 0 where the source raises ValueError.
find_column_index(gcols, cols, column_name) ==
    LET InGroup == {i \in 1..Len(gcols) : gcols[i].name = column_name}
        InCols == {i \in 1..Len(cols) : cols[i].name = column_name}
    IN  IF InGroup # {}
        THEN CHOOSE i \in InGroup : \A j \in InGroup : i <= j
        ELSE IF InCols # {}
        THEN Len(gcols) + (CHOOSE i \in InCols : \A j \in InCols : i <= j)
        ELSE 0

\* A faulty variant of KeepsRow: all() in the place of any().
KeepsRowAll(g, cols, key) ==
    \A i \in 1..Len(cols) : g[key][i] # default_value(cols[i])

\* Whether the list comprehension of print_stats keeps the row of a key.
KeepsRow(g, cols, key) ==
    \E i \in 1..Len(cols) : g[key][i] # default_value(cols[i])

\* `lines` as print_stats builds it: the kept rows in dict iteration order.
FilteredLines(g, ord, cols) ==
    LET kept == SelectSeq(ord, LAMBDA key : KeepsRow(g, cols, key))
    IN  [i \in 1..Len(kept) |-> kept[i] \o g[kept[i]]]

\* a < b for two values of one column's sortable projection.
SortableLess(column, a, b) ==
    IF column.kind = "author" THEN StrLess(a, b) ELSE a < b

\* A faulty variant of InsertSorted: an element goes before the elements already
\* placed whose key is equal, so that ties come out reversed.
InsertSortedUnstable(sorted, x, index, column) ==
    LET key(l) == to_sortable(column, l[index])
        NotGreater == {i \in 1..Len(sorted) :
                          ~SortableLess(column, key(x), key(sorted[i]))}
        at == IF NotGreater = {} THEN Len(sorted) + 1
              ELSE CHOOSE i \in NotGreater : \A j \in NotGreater : i <= j
    IN  SubSeq(sorted, 1, at - 1) \o <<x>> \o SubSeq(sorted, at, Len(sorted))

\* list.sort(key=..., reverse=True): descending, and stable. Each element
\* goes behind every element already placed whose key is not smaller.
InsertSorted(sorted, x, index, column) ==
    LET key(l) == to_sortable(column, l[index])
        Smaller == {i \in 1..Len(sorted) :
                       SortableLess(column, key(sorted[i]), key(x))}
        at == IF Smaller = {} THEN Len(sorted) + 1
              ELSE CHOOSE i \in Smaller : \A j \in Smaller : i <= j
    IN  SubSeq(sorted, 1, at - 1) \o <<x>> \o SubSeq(sorted, at, Len(sorted))

RECURSIVE SortLines(_, _, _)
SortLines(ls, index, column) ==
    IF ls = <<>> THEN <<>>
    ELSE InsertSorted(SortLines(SubSeq(ls, 1, Len(ls) - 1), index, column),
                      ls[Len(ls)], index, column)

MaxOf(S) == CHOOSE x \in S : \A y \in S : y <= x

\* The widths list of print_stats; only evaluated for a non-empty `lines`.
Widths(all_columns, ls) ==
    [index \in 1..Len(all_columns) |->
        LET column == all_columns[index]
            max_value_len ==
                MaxOf({Len(to_string(column, ls[x][index])) : x \in 1..Len(ls)})
        IN  MaxOf({Len(column.name), max_value_len})]

\* u'{0:{width}} '.format(elem, width=width): left-justified, then a space.
RECURSIVE LeftJustify(_, _)
LeftJustify(elem, width) ==
    IF Len(elem) >= width THEN elem ELSE LeftJustify(elem \o " ", width)

FormatCell(elem, width) == LeftJustify(elem, width) \o " "

\* u'{0:=^{width}} '.format('', width=width): width times '=', then a space.
RECURSIVE Fill(_)
Fill(width) == IF width = 0 THEN "" ELSE "=" \o Fill(width - 1)

FormatRule(width) == Fill(width) \o " "

RECURSIVE Join(_)
Join(cells) == IF cells = <<>> THEN "" ELSE Head(cells) \o Join(Tail(cells))

\* The text written to fp, one string per line (without its '\n').
Written(all_columns, widths, ls) ==
    LET n == Len(all_columns)
        header == Join([i \in 1..n |-> FormatCell(all_columns[i].name, widths[i])])
        rule == Join([i \in 1..n |-> FormatRule(widths[i])])
        row(l) == Join([i \in 1..n |->
                      FormatCell(to_string(all_columns[i], l[i]), widths[i])])
    IN  <<header, rule>> \o [x \in 1..Len(ls) |-> row(ls[x])]

\* What a print_stats(fp, sort_by) call does: how it ends, the rows it
\* wrote and the text on fp.
PrintOutcome(gcols, cols, g, ord, sb) ==
    LET all_columns == gcols \o cols
        lines == FilteredLines(g, ord, cols)
        sort_by_index == find_column_index(gcols, cols, sb)
        sorted == IF Truthy(sb)
                  THEN SortLines(lines, sort_by_index, all_columns[sort_by_index])
                  ELSE lines
    IN  IF Truthy(sb) /\ sort_by_index = 0
        THEN [status |-> "ValueError: Unknown column name",
              rendered |-> <<>>, fp |-> <<>>]
        ELSE IF all_columns # <<>> /\ lines = <<>>
        THEN [status |-> "ValueError: max() arg is an empty sequence",
              rendered |-> <<>>, fp |-> <<>>]
        ELSE [status |-> "ok", rendered |-> sorted,
              fp |-> Written(all_columns, Widths(all_columns, sorted), sorted)]

SortKeys == {PyNone, "", "Name", "Created", "Voted", "Bogus"}

\* A faulty variant of print_stats: the rows are reset to the defaults once printed.
print_stats_draining(sb) ==
    /\ op # "process"
    /\ (op = "print" /\ sort_by = sb) => prints < MaxPrints
    /\ \E out \in {PrintOutcome(group_columns, columns, groups, order, sb)} :
        /\ prints' = IF op = "print" /\ sort_by = sb THEN prints + 1 ELSE 1
        /\ op' = "print"
        /\ sort_by' = sb
        /\ status' = out.status
        /\ rendered' = out.rendered
        /\ fp' = out.fp
        /\ groups' = [key \in DOMAIN groups |-> init_values]
        /\ UNCHANGED <<data, group_columns, columns, init_values, order,
                       calls, records, new_columns>>

print_stats(sb) ==
    /\ op # "process"
    /\ (op = "print" /\ sort_by = sb) => prints < MaxPrints
    /\ \E out \in {PrintOutcome(group_columns, columns, groups, order, sb)} :
        /\ prints' = IF op = "print" /\ sort_by = sb THEN prints + 1 ELSE 1
        /\ op' = "print"
        /\ sort_by' = sb
        /\ status' = out.status
        /\ rendered' = out.rendered
        /\ fp' = out.fp
        /\ UNCHANGED <<data, group_columns, columns, init_values, groups, order,
                       calls, records, new_columns>>

\* process_records returns to its caller: its arguments go out of scope.
return_to_caller ==
    /\ op = "process"
    /\ op' = "return"
    /\ records' = <<>>
    /\ new_columns' = <<>>
    /\ UNCHANGED <<data, group_columns, columns, init_values, groups, order, calls,
                   sort_by, status, rendered, fp, prints>>

----------------------------------------------------------------------------

\* A new Statistics object, as every do_stats creates it.
NewStatistics ==
    /\ group_columns = <<AuthorNameColumn("Name")>>
    /\ columns = <<>>
    /\ init_values = <<>>
    /\ groups = <<>>
    /\ order = <<>>
    /\ calls = 0
    /\ records = <<>>
    /\ new_columns = <<>>
    /\ op = "init"
    /\ sort_by = PyNone
    /\ status = "ok"
    /\ rendered = <<>>
    /\ fp = <<>>
    /\ prints = 0

Init ==
    /\ data = <<>>
    /\ NewStatistics

ProcessRecords ==
    /\ calls < MaxCalls
    /\ \E recs \in SeqsUpTo(Records, MaxRecords) :
           \E cols \in ColumnLists :
               process_records(recs, cols)

PrintStats == \E sb \in SortKeys : print_stats(sb)

Return == return_to_caller

Next == ProcessRecords \/ Return \/ PrintStats

Spec == Init /\ [][Next]_vars

----------------------------------------------------------------------------
(* The aggregator fed by a record source that breaks its contract: some   *)
(* records lack the attribute a column's closure reads.                   *)

SoundRecords == [author : Authors, val : {"None", "c1"}]

\* Records without the attribute `val`, and records whose author is None,
\* so that get_author(record).fullname raises.
FaultyRecords ==
    [author : Authors, val : {Missing}] \cup [author : {Missing}, val : {"c1"}]

ProcessFaultyRecords ==
    /\ calls < MaxCalls
    /\ \E recs \in SeqsUpTo(SoundRecords \cup FaultyRecords, MaxRecords) :
           \E cols \in ColumnLists :
               process_records(recs, cols)

NextFaulty == ProcessFaultyRecords \/ Return \/ PrintStats

SpecFaulty == Init /\ [][NextFaulty]_vars

----------------------------------------------------------------------------
(* The reports of gerrit-stats.py: each do_stats makes a new Statistics   *)
(* object, runs its passes over record lists of one GerritRecords object  *)
(* and prints once.  An exception of a pass ends do_stats.                *)

MaxChanges == 2     \* most changes in the query results

ChangeNumbers == <<"c1", "c2", "c3", "c4">>

Change(owner, commit_message, change_status, created_on, patchsets, comments) ==
    [number |-> "c0", owner |-> owner, commit_message |-> commit_message,
     status |-> change_status, created_on |-> created_on,
     patchsets |-> patchsets, comments |-> comments]

\* The query results made of the given changes: Change objects are distinct,
\* the one at position i is written ChangeNumbers[i].
QueryResults(universe) ==
    {[i \in 1..Len(changes) |->
         [changes[i] EXCEPT !.number = ChangeNumbers[i]]] :
     changes \in SeqsUpTo(universe, MaxChanges)}

\* Open changes with one patch set: verified or not, with or without a
\* code-review vote of Al, with or without a comment of Bobby; and one
\* merged change.
OpenReportChanges ==
    LET verified == {<<>>,
                     <<Approval("Verified", 2, "jenkins", "d2")>>,
                     <<Approval("Verified", 2, "jenkins", "d2"),
                       Approval("Verified", -1, "Bobby", "d2")>>}
        reviews == {<<>>}
                   \cup {<<Approval("Code-Review", value, "Al", "d2")>> :
                         value \in {-1, 1, 2}}
                   \cup {<<Approval("Code-Review", 2, "Al", "d2"),
                           Approval("Code-Review", -1, "Bobby", "d2")>>}
        comments == {<<>>, <<ChangeComment("Bobby", "Looks fine", "d2")>>}
    IN  {Change(owner, message, "NEW", "d1", <<v \o r>>, c) :
             owner \in Authors, message \in {"WIP: parser", "Fix parser"},
             v \in verified, r \in reviews, c \in comments}
        \cup {Change("Al", "Fix parser", "MERGED", "d1",
                     <<<<Approval("SUBM", 1, "Al", "d2")>>>>, <<>>)}

OpenChangesColumns ==
    <<CountColumnOf("Open", "True"),
      CountColumnOf("RFC/WIP", "is_rfc_wip"),
      CountColumnOf("-Verified", "-Verified"),
      CountColumnOf("-Review", "-Review"),
      CountColumnOf("Approved", "Approved"),
      CountColumnOf("+Review", "+Review"),
      CountColumnOf("Comments", "Comments"),
      CountColumnOf("Nothing", "Nothing")>>

InitOpenChanges ==
    /\ data \in QueryResults(OpenReportChanges)
    /\ NewStatistics

OpenChangesPass ==
    /\ calls = 0
    /\ process_records(get_change_records(open_changes(data)),
                       OpenChangesColumns)

OpenChangesPrint ==
    /\ calls = 1
    /\ op = "return"
    /\ status = "ok"
    /\ print_stats("Open")

NextOpenChanges == OpenChangesPass \/ Return \/ OpenChangesPrint

SpecOpenChanges == InitOpenChanges /\ [][NextOpenChanges]_vars

\* Changes created before or in the period, open, merged or abandoned, with
\* or without a code-review vote and a comment; and one draft.
ActivityReportChanges ==
    LET closing == {<<"NEW", PyNone>>, <<"MERGED", "d2">>,
                    <<"ABANDONED", "d2">>}
        reviews == {<<>>,
                    <<Approval("Code-Review", 1, "Al", "d2")>>,
                    <<Approval("Code-Review", 1, "Bobby", "d2")>>,
                    <<Approval("Code-Review", 1, "Al", "d1")>>}
        comments == {<<>>, <<ChangeComment("Al", "Looks fine", "d2")>>}
        Submit(owner, cl) ==
            IF cl[1] = "MERGED" THEN <<Approval("SUBM", 1, owner, cl[2])>>
            ELSE <<>>
        Abandon(owner, cl) ==
            IF cl[1] = "ABANDONED"
            THEN <<ChangeComment(owner, "Abandoned", cl[2])>>
            ELSE <<>>
    IN  {Change(owner, "Fix parser", cl[1], created,
                <<r \o Submit(owner, cl)>>, c \o Abandon(owner, cl)) :
             owner \in Authors, created \in {"d1", "d2"}, cl \in closing,
             r \in reviews, c \in comments}
        \cup {Change("Al", "Fix parser", "DRAFT", "d1", <<<<>>>>, <<>>)}

ChangeActivityColumns ==
    <<CountColumnOf("Created", "created_on"),
      CountColumnOf("Merged", "merged_on"),
      CountColumnOf("Abandoned", "abandoned_on"),
      CountColumnOf("Both", "created_on and closed_on")>>

CommentedColumn ==
    DistinctCountColumnOf("Commented", "change if timestamp else None")

VotedColumn ==
    DistinctCountColumnOf("Voted", "change if timestamp else None")

InitChangeActivity ==
    /\ data \in QueryResults(ActivityReportChanges)
    /\ NewStatistics

ChangeActivityPass ==
    /\ calls = 0
    /\ process_records(get_change_records(public_changes(data)),
                       ChangeActivityColumns)

CommentsPass ==
    /\ calls = 1
    /\ status = "ok"
    /\ process_records(get_comment_records(public_changes(data)),
                       <<CommentedColumn>>)

VotesPass ==
    /\ calls = 2
    /\ status = "ok"
    /\ process_records(get_vote_records(public_changes(data)),
                       <<VotedColumn>>)

ChangeActivityPrint ==
    /\ calls = 3
    /\ op = "return"
    /\ status = "ok"
    /\ print_stats("Voted")

NextChangeActivity ==
    ChangeActivityPass \/ CommentsPass \/ VotesPass \/ Return
        \/ ChangeActivityPrint

SpecChangeActivity == InitChangeActivity /\ [][NextChangeActivity]_vars

----------------------------------------------------------------------------
(* Vocabulary of the properties. *)

IsProcessStep == op' = "process"

\* The records of a batch that fall into the group of a key.
RecordsOf(recs, key) ==
    {j \in 1..Len(recs) : GroupKey(group_columns, recs[j]) = key}

\* The keys whose rows print_stats is to render: some accumulated column
\* differs from its default.
NonTrivialKeys ==
    {key \in DOMAIN groups :
        \E i \in 1..Len(columns) :
            groups[key][i] # (IF columns[i].kind = "distinct" THEN {} ELSE 0)}

----------------------------------------------------------------------------
(* C1: after every process_records call every group row has exactly one   *)
(* slot per registered column (and so has the list of default values);    *)
(* a slot of a new column whose group received no record of the batch,    *)
(* and every slot of an earlier column in a group the call created, holds *)
(* the column's default value, 0 or the empty set.                        *)

C1_Step ==
    IsProcessStep =>
        /\ Len(init_values') = Len(columns')
        /\ \A key \in DOMAIN groups' :
            /\ DOMAIN groups'[key] = 1..Len(columns')
            /\ \A i \in 1..Len(columns') :
                LET default == IF columns'[i].kind = "distinct" THEN {} ELSE 0
                    contributed ==
                        IF i > Len(columns)
                        THEN RecordsOf(records', key) # {}
                        ELSE key \in DOMAIN groups
                IN  ~contributed => groups'[key][i] = default

C1_Extension == [][C1_Step]_vars

\* A group of the first call extended by the second, beside a group the
\* second call created: each holds a default in the other's columns.
C1_Witness ==
    /\ calls = 2
    /\ Len(columns) >= 2
    /\ \E k1, k2 \in DOMAIN groups :
        /\ k1 # k2
        /\ groups[k1][1] # default_value(columns[1])
        /\ groups[k1][Len(columns)] = default_value(columns[Len(columns)])
        /\ groups[k2][1] = default_value(columns[1])
        /\ groups[k2][Len(columns)] # default_value(columns[Len(columns)])

----------------------------------------------------------------------------
(* C2: a count column's state for a group is the number of records of the *)
(* pass that registered the column whose key is the group's and whose     *)
(* predicate is true: the call that registers the column sets it to that  *)
(* number, and a later call leaves it as it is in an existing group and   *)
(* 0 in a group it creates.                                               *)

C2_Step ==
    IsProcessStep =>
        \A key \in DOMAIN groups' :
            \A i \in 1..Len(columns') :
                columns'[i].kind = "count" =>
                    IF i > Len(columns)
                    THEN groups'[key][i] =
                            Cardinality({j \in RecordsOf(records', key) :
                                            Truthy(records'[j].val)})
                    ELSE groups'[key][i] =
                            IF key \in DOMAIN groups THEN groups[key][i] ELSE 0

C2_Count == [][C2_Step]_vars

\* A second call whose count column counts two true-predicate records for
\* one group, after a first call that gave another count column a 1.
C2_Witness ==
    /\ calls = 2
    /\ op = "process"
    /\ Len(columns) >= 2
    /\ columns[1].kind = "count"
    /\ columns[Len(columns)].kind = "count"
    /\ \E key \in DOMAIN groups :
        /\ groups[key][1] = 1
        /\ groups[key][Len(columns)] = 2

----------------------------------------------------------------------------
(* C3: the rendered and the sortable value of a distinct-count column for *)
(* a group are the number of distinct identifying values (every raw value *)
(* but None) that the records of the column's pass contributed to that    *)
(* group; a later call leaves the value as it is in an existing group and *)
(* at 0 in a group it creates.                                            *)

C3_Step ==
    IsProcessStep =>
        \A key \in DOMAIN groups' :
            \A i \in 1..Len(columns') :
                columns'[i].kind = "distinct" =>
                    LET contributed ==
                            {records'[j].val : j \in RecordsOf(records', key)}
                                \ {PyNone}
                        expected ==
                            IF i > Len(columns) THEN Cardinality(contributed)
                            ELSE IF key \in DOMAIN groups
                            THEN Cardinality(groups[key][i])
                            ELSE 0
                    IN  /\ to_sortable(columns'[i], groups'[key][i]) = expected
                        /\ to_string(columns'[i], groups'[key][i]) =
                               IntToString(expected)

C3_DistinctCount == [][C3_Step]_vars

----------------------------------------------------------------------------
(* C4: after a process_records call, every raw value other than None that *)
(* a record of the batch gave a new distinct-count column is in the set   *)
(* of the record's group for that column, and None is in no set.          *)

C4_Inserted ==
    op = "process" =>
        \A n \in 1..Len(new_columns) :
            new_columns[n].kind = "distinct" =>
                LET i == Len(columns) - Len(new_columns) + n
                IN  /\ \A j \in 1..Len(records) :
                        records[j].val # PyNone =>
                            records[j].val \in
                                groups[GroupKey(group_columns, records[j])][i]
                    /\ \A key \in DOMAIN groups : PyNone \notin groups[key][i]

----------------------------------------------------------------------------
(* C5: a print_stats call renders each group for which some accumulated   *)
(* column differs from its default exactly once and renders no other      *)
(* group (a call that raises for an unknown sort column renders nothing); *)
(* fp holds the header, the rule and one line per rendered row.           *)

RenderedKey(x) == SubSeq(rendered[x], 1, Len(group_columns))

C5_Filter ==
    op = "print" =>
        /\ \A x \in 1..Len(rendered) : RenderedKey(x) \in NonTrivialKeys
        /\ \A x, y \in 1..Len(rendered) :
               RenderedKey(x) = RenderedKey(y) => x = y
        /\ status # "ValueError: Unknown column name" =>
               \A key \in NonTrivialKeys :
                   \E x \in 1..Len(rendered) : RenderedKey(x) = key
        /\ Len(fp) = IF status = "ok" THEN Len(rendered) + 2 ELSE 0

\* A print after two calls that renders one group and suppresses another.
C5_Witness ==
    /\ op = "print"
    /\ status = "ok"
    /\ calls = 2
    /\ Len(columns) >= 2
    /\ Len(rendered) = 1
    /\ Cardinality(DOMAIN groups) = 2

----------------------------------------------------------------------------
(* C6: with sort_by the name of a column, the name resolves to the first  *)
(* column of that name among the group-key columns followed by the        *)
(* accumulated columns; that index holds the column's value in every      *)
(* rendered row; the rows are in descending order of the column's         *)
(* sortable projection (cardinality for a distinct-count column), and     *)
(* rows with equal projections are in the order the dict gave them.       *)

AllColumns == group_columns \o columns

NamesColumn(name) == \E i \in 1..Len(AllColumns) : AllColumns[i].name = name

C6_Sorted ==
    (op = "print" /\ status = "ok" /\ NamesColumn(sort_by)) =>
        LET Named == {i \in 1..Len(AllColumns) : AllColumns[i].name = sort_by}
            idx == CHOOSE i \in Named : \A j \in Named : i <= j
            column == AllColumns[idx]
            proj(v) == IF column.kind = "distinct" THEN Cardinality(v) ELSE v
            less(a, b) == IF column.kind = "author" THEN StrLess(a, b) ELSE a < b
            pos(key) == CHOOSE q \in 1..Len(order) : order[q] = key
            stored(key) == IF idx <= Len(group_columns) THEN key[idx]
                           ELSE groups[key][idx - Len(group_columns)]
        IN  /\ \A x \in 1..Len(rendered) :
                   rendered[x][idx] = stored(RenderedKey(x))
            /\ \A x, y \in 1..Len(rendered) :
                   x < y =>
                       LET a == proj(rendered[x][idx])
                           b == proj(rendered[y][idx])
                       IN  /\ ~less(a, b)
                           /\ a = b => pos(RenderedKey(x)) < pos(RenderedKey(y))

\* A print sorted by the distinct-count column that moved the row the dict
\* gave second to the top.
C6_Witness ==
    /\ op = "print"
    /\ status = "ok"
    /\ sort_by = "Voted"
    /\ Len(rendered) = 2
    /\ order[1] = RenderedKey(2)
    /\ columns[Len(columns)].kind = "distinct"
    /\ Cardinality(rendered[1][Len(AllColumns)]) = 1
    /\ Cardinality(rendered[2][Len(AllColumns)]) = 0

----------------------------------------------------------------------------
(* C7: a print_stats call whose sort_by is a value other than None that   *)
(* names no column ends in an error and writes nothing to fp.             *)

C7_UnknownSortFails ==
    (op = "print" /\ sort_by # PyNone /\ ~NamesColumn(sort_by)) =>
        /\ status # "ok"
        /\ fp = <<>>

----------------------------------------------------------------------------
(* C8: a print_stats call without sort_by, or with the name of a column,  *)
(* completes in every state of the aggregator and writes the header, the  *)
(* rule of '=' and one line per rendered row, each column as wide as the  *)
(* longest of its title and its values' strings in the rendered rows.     *)

C8_Width(i) ==
    LET Lengths == {Len(AllColumns[i].name)} \cup
                   {Len(to_string(AllColumns[i], rendered[x][i])) :
                       x \in 1..Len(rendered)}
    IN  CHOOSE w \in Lengths : \A v \in Lengths : v <= w

C8_Table ==
    (op = "print" /\ (sort_by = PyNone \/ NamesColumn(sort_by))) =>
        LET n == Len(AllColumns)
        IN  /\ status = "ok"
            /\ Len(rendered) = Cardinality(NonTrivialKeys)
            /\ Len(fp) = Len(rendered) + 2
            /\ fp[1] = Join([i \in 1..n |->
                           FormatCell(AllColumns[i].name, C8_Width(i))])
            /\ fp[2] = Join([i \in 1..n |-> FormatRule(C8_Width(i))])
            /\ \A x \in 1..Len(rendered) :
                   fp[x + 2] = Join([i \in 1..n |->
                       FormatCell(to_string(AllColumns[i], rendered[x][i]),
                                  C8_Width(i))])

----------------------------------------------------------------------------
(* C9: a print_stats call leaves the registered columns, the default      *)
(* values and every group's row as they were, and a call that follows a   *)
(* print_stats call with the same sort_by ends the same way and writes    *)
(* the same text.                                                         *)

C9_Step ==
    op' = "print" =>
        /\ columns' = columns
        /\ init_values' = init_values
        /\ groups' = groups
        /\ (op = "print" /\ sort_by' = sort_by) =>
               /\ status' = status
               /\ rendered' = rendered
               /\ fp' = fp

C9_ReadOnly == [][C9_Step]_vars

\* The second of two print_stats calls with one sort key has written a
\* table of two rows.
C9_Witness ==
    /\ op = "print"
    /\ prints = 2
    /\ status = "ok"
    /\ Len(rendered) = 2
    /\ Len(fp) = 4

----------------------------------------------------------------------------
(* C10: the groups after process_records(records, columns) are the same   *)
(* for every order of the records of the batch: the same keys and, for    *)
(* every key, the same state in every column.                             *)

C10_Step ==
    IsProcessStep =>
        \A p \in Permutations(1..Len(records')) :
            LET permuted == [j \in 1..Len(records') |-> records'[p[j]]]
                result == ProcessedGroups(groups, group_columns, init_values,
                                          permuted, new_columns', Len(columns))
            IN  /\ DOMAIN result = DOMAIN groups'
                /\ \A key \in DOMAIN result : result[key] = groups'[key]

C10_OrderInsensitive == [][C10_Step]_vars

\* A batch of two different records of one author that gave a count
\* column 2 and a distinct-count column two values.
C10_Witness ==
    /\ op = "process"
    /\ Len(records) = 2
    /\ records[1] # records[2]
    /\ records[1].author = records[2].author
    /\ Len(new_columns) = 2
    /\ \E key \in DOMAIN groups :
        \E i, j \in 1..Len(columns) :
            /\ columns[i].kind = "count" /\ groups[key][i] = 2
            /\ columns[j].kind = "distinct" /\ Cardinality(groups[key][j]) = 2

----------------------------------------------------------------------------
(* C11: a process_records call ends in AttributeError exactly when some   *)
(* record of the batch lacks an attribute that a group-key column or one  *)
(* of the call's columns reads; then the new columns hold, for every      *)
(* group, what the records before the first such record contributed and   *)
(* nothing of that record or of a later one, and no group exists for a    *)
(* later record's key alone.                                              *)

C11_Lacks(record, cols) ==
    record.author = Missing \/ (cols # <<>> /\ record.val = Missing)

C11_Step ==
    IsProcessStep =>
        LET Failing == {j \in 1..Len(records') :
                           C11_Lacks(records'[j], new_columns')}
            first == CHOOSE j \in Failing : \A k \in Failing : j <= k
            prefix == SubSeq(records', 1, first - 1)
            Values(key) == {prefix[k].val : k \in RecordsOf(prefix, key)}
        IN  IF Failing = {} THEN status' = "ok"
            ELSE /\ status' = "AttributeError"
                 /\ \A key \in DOMAIN groups' :
                     /\ \/ key \in DOMAIN groups
                        \/ RecordsOf(prefix, key) # {}
                        \/ key = <<records'[first].author>>
                     /\ \A i \in (Len(columns) + 1)..Len(columns') :
                         groups'[key][i] =
                             IF columns'[i].kind = "count"
                             THEN Cardinality({k \in RecordsOf(prefix, key) :
                                                  Truthy(prefix[k].val)})
                             ELSE {v \in Values(key) : Truthy(v)}

C11_Propagates == [][C11_Step]_vars

\* A call that raised for its first record, which lacks `val`, and left the
\* second record, a sound one of another author, without a group.
C11_Witness ==
    /\ op = "process"
    /\ status = "AttributeError"
    /\ Len(records) = 2
    /\ records[1].author # Missing
    /\ records[1].val = Missing
    /\ records[2].author \notin {Missing, records[1].author}
    /\ records[2].val = "c1"
    /\ <<records[2].author>> \notin DOMAIN groups

----------------------------------------------------------------------------
(* C15: after a process_records call that raised part-way through its     *)
(* batch, the call's columns and their defaults are registered, every     *)
(* group that the records before the failing one built or updated holds   *)
(* exactly their contributions, and every row has one slot per            *)
(* registered column; the rows keep that length through every later       *)
(* call.                                                                  *)

C15_Step ==
    /\ Len(init_values') = Len(columns')
    /\ \A key \in DOMAIN groups' : Len(groups'[key]) = Len(columns')
    /\ (IsProcessStep /\ status' = "AttributeError") =>
        LET first == FirstRaising(group_columns, new_columns', records')
            prefix == SubSeq(records', 1, first - 1)
            before == ProcessedGroups(groups, group_columns, init_values,
                                      prefix, new_columns', Len(columns))
        IN  /\ columns' = columns \o new_columns'
            /\ init_values' =
                   init_values \o [i \in 1..Len(new_columns') |->
                                       default_value(new_columns'[i])]
            /\ \A key \in DOMAIN before :
                   key \in DOMAIN groups' /\ groups'[key] = before[key]

C15_Consistent == [][C15_Step]_vars

\* A second call that raised on its second record: its first record's value
\* is in the new column of its group, next to a column of the first call, and
\* another group of the first call got the new column's default.
C15_Witness ==
    /\ op = "process"
    /\ status = "AttributeError"
    /\ calls = 2
    /\ Len(new_columns) = 1
    /\ Len(columns) = 2
    /\ columns[1].kind = "distinct"
    /\ columns[2].kind = "count"
    /\ Len(records) = 2
    /\ records[1].val = "c1"
    /\ records[2].author # Missing
    /\ records[2].val = Missing
    /\ <<records[1].author>> \in DOMAIN groups
    /\ groups[<<records[1].author>>][2] = 1
    /\ \E key \in DOMAIN groups : groups[key][1] # {} /\ groups[key][2] = 0

----------------------------------------------------------------------------
(* C12: after the pass of the open-changes report, exactly one of the     *)
(* seven status columns counts each open change, and so in every          *)
(* author's row 'Open' is the sum of the seven other columns.             *)

C12_OpenIsSum ==
    (op = "process" /\ columns = OpenChangesColumns) =>
        /\ \A k \in 1..Len(records) :
               Cardinality({i \in 2..8 :
                               get_value(columns[i], records[k]) = 1}) = 1
        /\ \A key \in DOMAIN groups :
               groups[key][1] =
                   groups[key][2] + groups[key][3] + groups[key][4]
                       + groups[key][5] + groups[key][6] + groups[key][7]
                       + groups[key][8]

----------------------------------------------------------------------------
(* C13: the first pass of the change-activity report completes, and in    *)
(* every author's row 'Both' is the number of the author's changes that   *)
(* were created in the period and merged or abandoned in it.              *)

C13_Both ==
    (op = "process" /\ columns = ChangeActivityColumns) =>
        /\ status = "ok"
        /\ \A key \in DOMAIN groups :
               groups[key][4] =
                   Cardinality({k \in 1..Len(records) :
                       /\ <<records[k].author>> = key
                       /\ records[k].created_on # PyNone
                       /\ \/ records[k].merged_on # PyNone
                          \/ records[k].abandoned_on # PyNone})

----------------------------------------------------------------------------
(* C14: after the votes pass of the change-activity report, an author's   *)
(* 'Voted' holds the changes of other owners on which the author cast a   *)
(* code-review vote in the period, as 'Commented' holds the changes of    *)
(* other owners on which the author commented in the period.              *)

C14_InPeriod(timestamp) ==
    timestamp # PyNone /\ DayOf(timestamp) >= cutoff_date

C14_NotOwned ==
    (op = "process" /\ Len(columns) = 6 /\ status = "ok") =>
        \A key \in DOMAIN groups :
            LET author == key[1]
                others == {i \in 1..Len(data) :
                              /\ data[i].status # "DRAFT"
                              /\ data[i].owner # author}
                CommentedBy(i) ==
                    \E k \in 1..Len(data[i].comments) :
                        /\ data[i].comments[k].reviewer = author
                        /\ C14_InPeriod(data[i].comments[k].timestamp)
                VotedBy(i) ==
                    \E p \in 1..Len(data[i].patchsets) :
                        \E k \in 1..Len(data[i].patchsets[p]) :
                            LET vote == data[i].patchsets[p][k]
                            IN  /\ vote.approval_type = "Code-Review"
                                /\ vote.by = author
                                /\ C14_InPeriod(vote.granted_on)
            IN  /\ groups[key][5] =
                       {data[i].number : i \in {j \in others : CommentedBy(j)}}
                /\ groups[key][6] =
                       {data[i].number : i \in {j \in others : VotedBy(j)}}

====
